---- MODULE Spec2Model ----
(***************************************************************************)
(* Model of the client-side state management of the journal application    *)
(* (frontend/src/App.tsx): the Redux root reducer and its action creators,  *)
(* the createUser thunk, the <SignUp> form's submit handler and the <Alerts>*)
(* dismiss handler, as scheduled by the browser's event loop.               *)
(***************************************************************************)
EXTENDS Integers, Sequences, FiniteSets, TLC

\* ------------------------------------------------------------------------
\* Bounds of the model
\* ------------------------------------------------------------------------

\* How many distinct alert ids (uuid strings) exist.
NumIds == 2

\* The longest alerts.ids list the model lets the store grow to.
MaxAlerts == 2

\* How many invocations of SignUp.onSubmit may be in progress at once.
NumSubmits == 2

AlertIds == 1..NumIds

Procs == 1..NumSubmits

\* ------------------------------------------------------------------------
\* Values
\* ------------------------------------------------------------------------

\* JavaScript's null (requestError and token are `string | null`).
null == "<null>"

\* enum RequestStatus
IDLE == "idle"

LOADING == "loading"

FAILED == "failed"

SUCCEEDED == "succeeded"

RequestStatus == {IDLE, LOADING, FAILED, SUCCEEDED}

\* The string literals of the source.
PasswordsDontMatch == "THE PROVIDED PASSWORDS DON'T MATCH!"

RegistrationSuccessful == "REGISTRATION SUCCESSFUL"

ErrorNotFromBackend == "ERROR NOT FROM BACKEND"

\* The TypeError object thrown by reading a property of undefined.
TypeErrorObject == "<TypeError>"

\* Error strings a backend may put in the `error` field of its response body.
\* The empty string is a string too (and is falsy in JavaScript).
ServerErrors == {"e1", ""}

\* Every error string an action may carry.
ErrorStrings == ServerErrors \cup {ErrorNotFromBackend}

\* Every value that may end up as an alert's message.
Messages ==
  {PasswordsDontMatch, RegistrationSuccessful, TypeErrorObject} \cup ErrorStrings

Tokens == {"jws1"}

\* Values typed into the two password inputs of the sign-up form.
Passwords == {"", "pw"}

\* ------------------------------------------------------------------------
\* The Redux state
\* ------------------------------------------------------------------------

\* interface IAlert
IAlert == [id : AlertIds, message : Messages]

\* interface IStateAlerts: the entities object is a map whose keys are ids.
IStateAlerts ==
  [ids : UNION {[1..n -> AlertIds] : n \in 0..(MaxAlerts + 1)},
   entities : UNION {[D -> IAlert] : D \in SUBSET AlertIds}]

\* interface IStateAuth
IStateAuth ==
  [requestStatus : RequestStatus,
   requestError : ErrorStrings \cup {null},
   token : Tokens \cup {null}]

\* interface IState
IState == [alerts : IStateAlerts, auth : IStateAuth]

\* The object literal {}.
EmptyObject == [k \in {} |-> null]

initialState ==
  [alerts |-> [ids |-> <<>>, entities |-> EmptyObject],
   auth |-> [requestStatus |-> IDLE, requestError |-> null, token |-> null]]

\* ------------------------------------------------------------------------
\* Action types and action creators
\* ------------------------------------------------------------------------

CreateUserPENDING == "auth/createUser/pending"

CreateUserREJECTED == "auth/createUser/rejected"

CreateUserFULFILLED == "auth/createUser/fulfilled"

AlertCREATE == "alerts/create"

AlertREMOVE == "alerts/remove"

IssueJWSTokenPENDING == "auth/issueJWSToken/pending"

IssueJWSTokenREJECTED == "auth/issueJWSToken/rejected"

IssueJWSTokenFULFILLED == "auth/issueJWSToken/fulfilled"

KnownTypes ==
  {CreateUserPENDING, CreateUserREJECTED, CreateUserFULFILLED,
   AlertCREATE, AlertREMOVE,
   IssueJWSTokenPENDING, IssueJWSTokenREJECTED, IssueJWSTokenFULFILLED}

\* Action types the reducer has no case for: the one Redux itself dispatches
\* when the store is created, and one of some other part of an application.
UnknownTypes == {"@@redux/INIT", "entries/fetch/pending"}

createUserPending == [type |-> CreateUserPENDING]

createUserRejected(error) == [type |-> CreateUserREJECTED, error |-> error]

createUserFulfilled == [type |-> CreateUserFULFILLED]

alertCreate(id, message) ==
  [type |-> AlertCREATE, payload |-> [id |-> id, message |-> message]]

alertRemove(id) == [type |-> AlertREMOVE, payload |-> [id |-> id]]

issueJWSTokenPending == [type |-> IssueJWSTokenPENDING]

issueJWSTokenRejected(error) == [type |-> IssueJWSTokenREJECTED, error |-> error]

issueJWSTokenFulfilled(token) ==
  [type |-> IssueJWSTokenFULFILLED, payload |-> [token |-> token]]

CreateUserAction ==
  {createUserPending, createUserFulfilled}
    \cup {createUserRejected(e) : e \in ErrorStrings}

\* The reducer stores a message without looking at it: two messages stand for
\* those an outside caller of store.dispatch may pass.
DispatchedMessages == {RegistrationSuccessful, "e1"}

AlertAction ==
  {alertCreate(id, m) : id \in AlertIds, m \in DispatchedMessages}
    \cup {alertRemove(id) : id \in AlertIds}

IssueJWSTokenAction ==
  {issueJWSTokenPending}
    \cup {issueJWSTokenRejected(e) : e \in ErrorStrings}
    \cup {issueJWSTokenFulfilled(t) : t \in Tokens}

UnknownAction == {[type |-> t] : t \in UnknownTypes}

\* ------------------------------------------------------------------------
\* Helpers for JavaScript's arrays and objects
\* ------------------------------------------------------------------------

\* Array.prototype.filter with the predicate (x) => x !== removed.
RECURSIVE FilterOut(_, _)
FilterOut(ids, removed) ==
  IF ids = <<>> THEN <<>>
  ELSE IF Head(ids) = removed THEN FilterOut(Tail(ids), removed)
       ELSE <<Head(ids)>> \o FilterOut(Tail(ids), removed)

\* { ...obj } followed by obj[key] = value.
ObjectSet(obj, key, value) ==
  [k \in (DOMAIN obj) \cup {key} |-> IF k = key THEN value ELSE obj[k]]

\* { ...obj } followed by delete obj[key].
ObjectDelete(obj, key) == [k \in (DOMAIN obj) \ {key} |-> obj[k]]

\* The elements of an array, as a set.
Elems(seq) == {seq[i] : i \in 1..Len(seq)}

\* ------------------------------------------------------------------------
\* The root reducer, one operator per case of its switch
\* ------------------------------------------------------------------------

\* case CreateUserActionTypes.PENDING
ReduceCreateUserPending(state, action) ==
  [state EXCEPT !.auth.requestStatus = LOADING]

\* case CreateUserActionTypes.REJECTED
ReduceCreateUserRejected(state, action) ==
  [state EXCEPT !.auth.requestStatus = FAILED,
                !.auth.requestError = action.error]

\* ReduceCreateUserFulfilled with a slip: requestError is not reset.
ReduceCreateUserFulfilledKeepsError(state, action) ==
  [state EXCEPT !.auth.requestStatus = SUCCEEDED]

\* ReduceCreateUserFulfilled with a slip: the case also resets the token.
ReduceCreateUserFulfilledDropsToken(state, action) ==
  [state EXCEPT !.auth.requestStatus = SUCCEEDED,
                !.auth.requestError = null,
                !.auth.token = null]

\* case CreateUserActionTypes.FULFILLED
ReduceCreateUserFulfilled(state, action) ==
  [state EXCEPT !.auth.requestStatus = SUCCEEDED,
                !.auth.requestError = null]

\* ReduceAlertCreate with a slip: the id is pushed to the end of the list.
ReduceAlertCreateAppends(state, action) ==
  LET id == action.payload.id
      message == action.payload.message
      newIds == state.alerts.ids \o <<id>>
      newEntities ==
        ObjectSet(state.alerts.entities, id, [id |-> id, message |-> message])
  IN [state EXCEPT !.alerts = [ids |-> newIds, entities |-> newEntities]]

\* case AlertActionTypes.CREATE
ReduceAlertCreate(state, action) ==
  LET id == action.payload.id
      message == action.payload.message
      newIds == <<id>> \o state.alerts.ids
      newEntities ==
        ObjectSet(state.alerts.entities, id, [id |-> id, message |-> message])
  IN [state EXCEPT !.alerts = [ids |-> newIds, entities |-> newEntities]]

\* ReduceAlertRemove with a slip: the entity is not deleted.
ReduceAlertRemoveKeepsEntity(state, action) ==
  LET idOfDeletedAlert == action.payload.id
      remainingIds == FilterOut(state.alerts.ids, idOfDeletedAlert)
  IN [state EXCEPT
        !.alerts = [ids |-> remainingIds, entities |-> state.alerts.entities]]

\* ReduceAlertRemove with a slip: ids.splice(ids.indexOf(id), 1) in place of
\* the filter, which removes the last id when the id is not in the list.
ReduceAlertRemoveSplices(state, action) ==
  LET idOfDeletedAlert == action.payload.id
      ids == state.alerts.ids
      index ==
        IF idOfDeletedAlert \in Elems(ids)
        THEN CHOOSE i \in 1..Len(ids) :
               /\ ids[i] = idOfDeletedAlert
               /\ \A j \in 1..(i - 1) : ids[j] # idOfDeletedAlert
        ELSE Len(ids)
      remainingIds ==
        IF ids = <<>> THEN <<>>
        ELSE SubSeq(ids, 1, index - 1) \o SubSeq(ids, index + 1, Len(ids))
      remainingEntities == ObjectDelete(state.alerts.entities, idOfDeletedAlert)
  IN [state EXCEPT
        !.alerts = [ids |-> remainingIds, entities |-> remainingEntities]]

\* case AlertActionTypes.REMOVE
ReduceAlertRemove(state, action) ==
  LET idOfDeletedAlert == action.payload.id
      remainingIds == FilterOut(state.alerts.ids, idOfDeletedAlert)
      remainingEntities == ObjectDelete(state.alerts.entities, idOfDeletedAlert)
  IN [state EXCEPT
        !.alerts = [ids |-> remainingIds, entities |-> remainingEntities]]

\* case IssueJWSTokenActionTypes.PENDING
ReduceIssueJWSTokenPending(state, action) ==
  [state EXCEPT !.auth.requestStatus = LOADING]

\* ReduceIssueJWSTokenRejected with a slip: a rejection also clears the token.
ReduceIssueJWSTokenRejectedClearsToken(state, action) ==
  [state EXCEPT !.auth.requestStatus = FAILED,
                !.auth.requestError = action.error,
                !.auth.token = null]

\* case IssueJWSTokenActionTypes.REJECTED
ReduceIssueJWSTokenRejected(state, action) ==
  [state EXCEPT !.auth.requestStatus = FAILED,
                !.auth.requestError = action.error]

\* case IssueJWSTokenActionTypes.FULFILLED
ReduceIssueJWSTokenFulfilled(state, action) ==
  [state EXCEPT !.auth.requestStatus = SUCCEEDED,
                !.auth.requestError = null,
                !.auth.token = action.payload.token]

\* ReduceDefault with a slip: an unknown action resets the state.
ReduceDefaultResets(state, action) == initialState

\* default
ReduceDefault(state, action) == state

rootReducer(state, action) ==
  CASE action.type = CreateUserPENDING -> ReduceCreateUserPending(state, action)
    [] action.type = CreateUserREJECTED -> ReduceCreateUserRejected(state, action)
    [] action.type = CreateUserFULFILLED -> ReduceCreateUserFulfilled(state, action)
    [] action.type = AlertCREATE -> ReduceAlertCreate(state, action)
    [] action.type = AlertREMOVE -> ReduceAlertRemove(state, action)
    [] action.type = IssueJWSTokenPENDING -> ReduceIssueJWSTokenPending(state, action)
    [] action.type = IssueJWSTokenREJECTED -> ReduceIssueJWSTokenRejected(state, action)
    [] action.type = IssueJWSTokenFULFILLED ->
         ReduceIssueJWSTokenFulfilled(state, action)
    [] OTHER -> ReduceDefault(state, action)

\* Dispatching a sequence of actions, one after the other.
RECURSIVE reduceAll(_, _)
reduceAll(state, actions) ==
  IF actions = <<>> THEN state
  ELSE reduceAll(rootReducer(state, Head(actions)), Tail(actions))

\* ------------------------------------------------------------------------
\* POST /api/users and the createUser thunk's handling of its outcome
\* ------------------------------------------------------------------------

\* JavaScript's undefined (an absent property).
undefined == "<undefined>"

\* The outcomes of axios.post("/api/users", ...): the request succeeds (a 2xx
\* response), or axios throws `err`. err.response is undefined when no
\* response was received; otherwise err.response.data is the response body:
\* a JSON object with or without an `error` field, a body that is no JSON
\* object (a string), or the JSON value null.
PostOutcomes ==
  {[ok |-> TRUE, hasResponse |-> TRUE, data |-> "object", error |-> undefined]}
    \cup {[ok |-> FALSE, hasResponse |-> TRUE, data |-> "object", error |-> e] :
            e \in ServerErrors \cup {undefined}}
    \cup {[ok |-> FALSE, hasResponse |-> TRUE, data |-> d, error |-> undefined] :
            d \in {"string", "null"}}
    \cup {[ok |-> FALSE, hasResponse |-> FALSE, data |-> undefined,
           error |-> undefined]}

\* The states of the promise an async function returns.
PromisePending == [state |-> "pending", reason |-> undefined]

PromiseFulfilled == [state |-> "fulfilled", reason |-> undefined]

PromiseRejected(reason) == [state |-> "rejected", reason |-> reason]

\* Effects that are not Redux actions, as entries of an effect log.
PostRequest == [type |-> "POST /api/users"]

PromiseSettled(promise) ==
  [type |-> "promise/" \o promise.state, reason |-> promise.reason]

\* x || y on strings: the empty string and undefined are falsy.
OrElse(x, y) == IF x = undefined \/ x = "" THEN y ELSE x

\* Whether the catch block of createUser throws a TypeError: err.response.data
\* reads a property of undefined when there is no response, and
\* responseBody.error reads a property of null when the body is null.
CatchThrows(err) == ~err.hasResponse \/ err.data = "null"

\* const responseBodyError = responseBody.error || "ERROR NOT FROM BACKEND"
\* (a string body has no `error` property).
responseBodyError(err) ==
  OrElse(IF err.data = "object" THEN err.error ELSE undefined, ErrorNotFromBackend)

\* What createUser does before its await: the actions it dispatches and the
\* request it issues, in program order.
createUserStart == <<createUserPending, PostRequest>>

\* createUserSettle with a slip: dispatch(createUserFulfilled()) is left out.
createUserSettleSkipsFulfilled(outcome) ==
  IF outcome.ok
  THEN [dispatched |-> <<>>, promise |-> PromiseFulfilled]
  ELSE IF CatchThrows(outcome)
       THEN [dispatched |-> <<>>, promise |-> PromiseRejected(TypeErrorObject)]
       ELSE [dispatched |-> <<createUserRejected(responseBodyError(outcome))>>,
             promise |-> PromiseRejected(responseBodyError(outcome))]

\* What createUser does once axios.post has settled with `outcome`: the actions
\* it dispatches, in order, and the state of the promise it returns.
createUserSettle(outcome) ==
  IF outcome.ok
  THEN [dispatched |-> <<createUserFulfilled>>, promise |-> PromiseFulfilled]
  ELSE IF CatchThrows(outcome)
       THEN [dispatched |-> <<>>, promise |-> PromiseRejected(TypeErrorObject)]
       ELSE [dispatched |-> <<createUserRejected(responseBodyError(outcome))>>,
             promise |-> PromiseRejected(responseBodyError(outcome))]

\* What SignUp.onSubmit does once the promise of dispatch(createUser(...)) has
\* settled: the actions it dispatches.
onSubmitSettle(id, promise) ==
  IF promise.state = "fulfilled"
  THEN <<alertCreate(id, RegistrationSuccessful)>>
  ELSE <<alertCreate(id, promise.reason)>>

\* ------------------------------------------------------------------------
\* State
\* ------------------------------------------------------------------------

VARIABLES
  store,     \* the state held by the Redux store
  formData,  \* the state of the <SignUp> form (its two password inputs)
  pc,        \* pc[p]: where invocation p of SignUp.onSubmit stands
  alertId,   \* alertId[p]: the `id` that invocation p drew from uuidv4()
  promise,   \* promise[p]: the promise of invocation p's createUser thunk
  trace,     \* trace[p]: the effects of invocation p so far, in order
  concurrent,\* concurrent[p]: whether another thunk was in flight during p's
  location,  \* the pathname of the router's current location
  lastStep   \* the handler that ran last, and what it did

vars == <<store, formData, pc, alertId, promise, trace, concurrent, location,
          lastStep>>

\* No alert id drawn yet.
NoId == 0

\* A record of one step: the handler that ran (op), the invocation of onSubmit
\* it belongs to (p, or 0), what it was given (input), the state of the store
\* when it began (before), its effects in order (effects), and the effects of
\* its invocation up to and including this step (trace).
Step(op, p, input, before, effects, log) ==
  [op |-> op, p |-> p, input |-> input, before |-> before,
   effects |-> effects, trace |-> log]

\* The Redux actions among some effects, in order.
RECURSIVE ActionsOf(_)
ActionsOf(effects) ==
  IF effects = <<>> THEN <<>>
  ELSE IF Head(effects).type \in KnownTypes \cup UnknownTypes
       THEN <<Head(effects)>> \o ActionsOf(Tail(effects))
       ELSE ActionsOf(Tail(effects))

\* createStore(rootReducer, composedEnhancer): Redux reduces its @@redux/INIT
\* action on an undefined state, for which the reducer's default parameter
\* value, initialState, stands.
Init ==
  /\ store = rootReducer(initialState, [type |-> "@@redux/INIT"])
  /\ formData = [password |-> "", repeatPassword |-> ""]
  /\ pc = [p \in Procs |-> "idle"]
  /\ alertId = [p \in Procs |-> NoId]
  /\ promise = [p \in Procs |-> PromisePending]
  /\ trace = [p \in Procs |-> <<>>]
  /\ concurrent = [p \in Procs |-> FALSE]
  /\ location = "/"
  /\ lastStep = Step("createStore", 0, undefined, initialState,
                     <<[type |-> "@@redux/INIT"]>>, <<>>)

\* A continuation is queued as a microtask: the event loop runs it before it
\* handles any further event (a user's input, a response from the network).
MicrotaskPending == \E p \in Procs : pc[p] = "awaitThunk"

\* The invocations of onSubmit that will still create their alert.
InFlight == {p \in Procs : pc[p] # "idle"}

\* uuidv4(): an id no alert has and no invocation in progress holds.
FreshIds ==
  AlertIds \ (Elems(store.alerts.ids) \cup DOMAIN store.alerts.entities
                \cup {alertId[p] : p \in InFlight})

\* ------------------------------------------------------------------------
\* store.dispatch(action), by any user of the exported store
\* ------------------------------------------------------------------------

AllActions ==
  CreateUserAction \cup AlertAction \cup IssueJWSTokenAction \cup UnknownAction

StoreDispatch(action) ==
  /\ ~MicrotaskPending
  /\ action.type = AlertCREATE => Len(store.alerts.ids) < MaxAlerts
  /\ store' = rootReducer(store, action)
  /\ lastStep' = Step("store.dispatch", 0, undefined, store, <<action>>, <<action>>)
  /\ UNCHANGED <<formData, pc, alertId, promise, trace, concurrent, location>>

NextReducer == \E action \in AllActions : StoreDispatch(action)

\* The reducer under every sequence of actions.
SpecReducer == Init /\ [][NextReducer]_vars

\* ------------------------------------------------------------------------
\* The application: the sign-up form, the thunk and the alert list
\* ------------------------------------------------------------------------

\* SignUp.onChange: a value is typed into one of the two password inputs (the
\* username, name and email inputs only travel in the request body).
onChange(name, value) ==
  /\ ~MicrotaskPending
  /\ formData' = [formData EXCEPT ![name] = value]
  /\ lastStep' = Step("onChange", 0, name, store, <<>>, <<>>)
  /\ UNCHANGED <<store, pc, alertId, promise, trace, concurrent, location>>

\* onSubmitStart with a slip: after the alert about the passwords, the
\* handler goes on to create the user (a missing else).
onSubmitStartFallsThrough(id, data) ==
  IF data.password # data.repeatPassword
  THEN [effects |-> <<alertCreate(id, PasswordsDontMatch)>> \o createUserStart,
        awaits |-> TRUE]
  ELSE [effects |-> createUserStart, awaits |-> TRUE]

\* What SignUp.onSubmit does before it returns or awaits: the effects, in
\* order, and whether it awaits the createUser thunk.
onSubmitStart(id, data) ==
  IF data.password # data.repeatPassword
  THEN [effects |-> <<alertCreate(id, PasswordsDontMatch)>>, awaits |-> FALSE]
  ELSE [effects |-> createUserStart, awaits |-> TRUE]

\* The form is submitted: invocation p of SignUp.onSubmit runs up to its await
\* of the thunk, or to its end when the passwords differ.
onSubmit(p) ==
  /\ ~MicrotaskPending
  /\ pc[p] = "idle"
  /\ \A q \in Procs : pc[q] = "idle" => p <= q
  /\ Len(store.alerts.ids) + Cardinality(InFlight) < MaxAlerts
  /\ \E id \in FreshIds :
       LET start == onSubmitStart(id, formData)
       IN /\ store' = reduceAll(store, ActionsOf(start.effects))
          /\ lastStep' = Step("onSubmit", p, formData, store, start.effects, start.effects)
          /\ IF start.awaits
             THEN /\ pc' = [pc EXCEPT ![p] = "awaitPost"]
                  /\ alertId' = [alertId EXCEPT ![p] = id]
                  /\ trace' = [trace EXCEPT ![p] = start.effects]
                  /\ concurrent' =
                       IF \E q \in Procs : pc[q] = "awaitPost"
                       THEN [q \in Procs |->
                               q = p \/ pc[q] = "awaitPost" \/ concurrent[q]]
                       ELSE [concurrent EXCEPT ![p] = FALSE]
             ELSE UNCHANGED <<pc, alertId, trace, concurrent>>
  /\ UNCHANGED <<formData, promise, location>>

\* The request of invocation p settles with `outcome`, and the createUser
\* thunk resumes after its await and runs to its end: the promise it returned
\* settles, which queues the rest of onSubmit as a microtask.
createUserResume(p, outcome) ==
  /\ ~MicrotaskPending
  /\ pc[p] = "awaitPost"
  /\ LET settle == createUserSettle(outcome)
         effects == settle.dispatched \o <<PromiseSettled(settle.promise)>>
     IN /\ store' = reduceAll(store, settle.dispatched)
        /\ promise' = [promise EXCEPT ![p] = settle.promise]
        /\ trace' = [trace EXCEPT ![p] = @ \o effects]
        /\ lastStep' = Step("createUser", p, outcome, store, effects, trace[p] \o effects)
  /\ pc' = [pc EXCEPT ![p] = "awaitThunk"]
  /\ UNCHANGED <<formData, alertId, concurrent, location>>

\* Invocation p of onSubmit resumes after `await dispatch(createUser(...))`
\* and runs to its end.
onSubmitResume(p) ==
  /\ pc[p] = "awaitThunk"
  /\ LET effects == onSubmitSettle(alertId[p], promise[p])
     IN /\ store' = reduceAll(store, effects)
        /\ lastStep' =
             Step("onSubmit.resume", p, promise[p], store, effects,
                  trace[p] \o effects)
  /\ pc' = [pc EXCEPT ![p] = "idle"]
  /\ alertId' = [alertId EXCEPT ![p] = NoId]
  /\ promise' = [promise EXCEPT ![p] = PromisePending]
  /\ trace' = [trace EXCEPT ![p] = <<>>]
  /\ concurrent' = [concurrent EXCEPT ![p] = FALSE]
  /\ UNCHANGED <<formData, location>>

\* Alerts.onClick: the X button of a displayed alert is clicked.
onClick(id) ==
  /\ ~MicrotaskPending
  /\ id \in Elems(store.alerts.ids)
  /\ store' = rootReducer(store, alertRemove(id))
  /\ lastStep' = Step("onClick", 0, id, store, <<alertRemove(id)>>, <<alertRemove(id)>>)
  /\ UNCHANGED <<formData, pc, alertId, promise, trace, concurrent, location>>

Next ==
  \/ \E name \in {"password", "repeatPassword"}, value \in Passwords :
       onChange(name, value)
  \/ \E p \in Procs : onSubmit(p)
  \/ \E p \in Procs, outcome \in PostOutcomes : createUserResume(p, outcome)
  \/ \E p \in Procs : onSubmitResume(p)
  \/ \E id \in AlertIds : onClick(id)

\* The application as its user and its backend drive it.
Spec == Init /\ [][Next]_vars

\* ------------------------------------------------------------------------
\* The router: <BrowserRouter> and the <Switch> of <App>
\* ------------------------------------------------------------------------

\* The paths of the four routes of <App>, and the path of the journal in the
\* application's tests.
Paths == {"/", "/sign-up", "/sign-in", "/my-monthly-journal", "/journal-entries"}

\* <Switch>: the view of the first <Route exact path=...> that matches the
\* pathname; a pathname that no route matches renders nothing. <App> holds no
\* <Redirect> and no route that looks at the store.
Switch(pathname) ==
  CASE pathname = "/" -> "Welcome"
    [] pathname = "/sign-up" -> "SignUp"
    [] pathname = "/sign-in" -> "SignIn"
    [] pathname = "/my-monthly-journal" -> "MyMonthlyJournal"
    [] OTHER -> "nothing"

\* The view <App> displays.
View == Switch(location)

\* The URL becomes `path` (a <Link> is clicked, or the address is typed or
\* pushed onto the history) and <App> renders the matching route.
visit(path) ==
  /\ ~MicrotaskPending
  /\ location' = path
  /\ lastStep' = Step("visit", 0, path, store, <<>>, <<>>)
  /\ UNCHANGED <<store, formData, pc, alertId, promise, trace, concurrent>>

NextRoutes ==
  \/ \E path \in Paths : visit(path)
  \/ \E action \in AllActions : StoreDispatch(action)

\* The router next to a store that any sequence of actions may have shaped.
SpecRoutes == Init /\ [][NextRoutes]_vars

\* ------------------------------------------------------------------------
\* Properties
\* ------------------------------------------------------------------------

\* The Redux actions the last step dispatched, in order.
Dispatched == ActionsOf(lastStep.effects)

\* The state of the store when the last step began.
Before == lastStep.before

\* C1: from every state, reducing createUserPending() and then
\* createUserFulfilled() leaves auth.requestStatus = succeeded and
\* auth.requestError = null, and reducing createUserPending() and then
\* createUserRejected(e) leaves auth.requestStatus = failed and
\* auth.requestError = e, for every error string e.
C1_CreateUserSequences ==
  /\ LET s == reduceAll(store, <<createUserPending, createUserFulfilled>>)
     IN /\ s.auth.requestStatus = SUCCEEDED
        /\ s.auth.requestError = null
  /\ \A e \in ErrorStrings :
       LET s == reduceAll(store, <<createUserPending, createUserRejected(e)>>)
       IN /\ s.auth.requestStatus = FAILED
          /\ s.auth.requestError = e

\* C1's case: createUserFulfilled() was reduced right after a pending action,
\* on a state that still carried the error of an earlier failure.
C1_Witness ==
  /\ Dispatched = <<createUserFulfilled>>
  /\ Before.auth.requestStatus = LOADING
  /\ Before.auth.requestError = "e1"
  /\ store.auth.requestStatus = SUCCEEDED
  /\ store.auth.requestError = null

\* C2: every run of the createUser thunk dispatches createUserPending before
\* it issues POST /api/users, and once the request has settled it dispatches
\* exactly one of createUserFulfilled (the request succeeded) and
\* createUserRejected (the request failed); the promise it returns is
\* fulfilled exactly when it dispatched createUserFulfilled, and rejected with
\* the dispatched error exactly when it dispatched createUserRejected.
C2_ThunkLifecycle ==
  /\ (lastStep.op = "onSubmit" /\ PostRequest \in Elems(lastStep.effects))
       => lastStep.effects = <<createUserPending, PostRequest>>
  /\ lastStep.op = "createUser" =>
       LET outcome == lastStep.input
           result == promise[lastStep.p]
       IN /\ Len(Dispatched) = 1
          /\ outcome.ok => Dispatched = <<createUserFulfilled>>
          /\ ~outcome.ok => Dispatched[1].type = CreateUserREJECTED
          /\ result.state = "fulfilled" <=> Dispatched = <<createUserFulfilled>>
          /\ result.state = "rejected" <=>
               Dispatched = <<createUserRejected(result.reason)>>

\* C3, as claimed: from every state, for every id and message, reducing
\* alertCreate(id, message) and then alertRemove(id) gives back the alerts
\* slice of that state.
C3_RoundTripAnyId ==
  \A id \in AlertIds, message \in Messages :
    reduceAll(store, <<alertCreate(id, message), alertRemove(id)>>).alerts
      = store.alerts

\* C3, amended: from every state, for every message and every id that is
\* neither in alerts.ids nor a key of alerts.entities, reducing
\* alertCreate(id, message) and then alertRemove(id) gives back the alerts
\* slice of that state.
C3_RoundTripFreshId ==
  \A id \in AlertIds, message \in Messages :
    (id \notin Elems(store.alerts.ids) /\ id \notin DOMAIN store.alerts.entities)
      => reduceAll(store, <<alertCreate(id, message), alertRemove(id)>>).alerts
           = store.alerts

\* C3's case: alertRemove(id) was reduced on a state whose newest alert was
\* the only one with that id, and another alert stays behind.
C3_Witness ==
  \E id \in AlertIds :
    /\ Dispatched = <<alertRemove(id)>>
    /\ Before.alerts.ids # <<>>
    /\ Head(Before.alerts.ids) = id
    /\ id \notin Elems(Tail(Before.alerts.ids))
    /\ store.alerts.ids = Tail(Before.alerts.ids)
    /\ store.alerts.ids # <<>>
    /\ store.alerts.entities = ObjectDelete(Before.alerts.entities, id)

\* C4: rootReducer is total (it returns a state for every state and action),
\* and an action of a type it has no case for leaves the state as it was.
C4_UnknownActionsPassThrough ==
  /\ \A action \in AllActions : rootReducer(store, action) \in IState
  /\ \A action \in UnknownAction : rootReducer(store, action) = store
  /\ \A action \in UnknownAction : Dispatched = <<action>> => store = Before

\* C4's case: an action of an unknown type was dispatched to a store that
\* holds an alert, an error and a token.
C4_Witness ==
  /\ lastStep.op = "store.dispatch"
  /\ Dispatched = <<[type |-> "entries/fetch/pending"]>>
  /\ store.alerts.ids # <<>>
  /\ store.auth.requestError # null
  /\ store.auth.token # null

AuthTypes ==
  {CreateUserPENDING, CreateUserREJECTED, CreateUserFULFILLED,
   IssueJWSTokenPENDING, IssueJWSTokenREJECTED, IssueJWSTokenFULFILLED}

\* C5: an action changes only its own slice and fields. The six auth actions
\* leave the alerts slice as it was; a pending action changes nothing but
\* auth.requestStatus; a rejected action and createUser's fulfilled action
\* change nothing but auth.requestStatus and auth.requestError (the token is
\* kept); issueJWSToken's fulfilled action changes nothing but requestStatus,
\* requestError and token; the two alert actions leave the auth slice as it
\* was.
C5_ActionsChangeOnlyTheirFields ==
  (lastStep.op = "store.dispatch" /\ Dispatched # <<>>) =>
    LET type == Dispatched[1].type
    IN /\ type \in AuthTypes => store.alerts = Before.alerts
       /\ type \in {CreateUserPENDING, IssueJWSTokenPENDING} =>
            store = [Before EXCEPT !.auth.requestStatus = store.auth.requestStatus]
       /\ type \in {CreateUserREJECTED, IssueJWSTokenREJECTED, CreateUserFULFILLED} =>
            store = [Before EXCEPT !.auth.requestStatus = store.auth.requestStatus,
                                   !.auth.requestError = store.auth.requestError]
       /\ type = IssueJWSTokenFULFILLED =>
            store = [Before EXCEPT !.auth.requestStatus = store.auth.requestStatus,
                                   !.auth.requestError = store.auth.requestError,
                                   !.auth.token = store.auth.token]
       /\ type \in {AlertCREATE, AlertREMOVE} =>
            store = [Before EXCEPT !.alerts = store.alerts]

\* C5's case: issueJWSTokenRejected was reduced on a state that holds a token
\* and an alert, and changed the status and the error only.
C5_Witness ==
  /\ Dispatched = <<issueJWSTokenRejected("e1")>>
  /\ Before.auth.requestStatus = SUCCEEDED
  /\ Before.auth.requestError = null
  /\ store.auth.token = "jws1"
  /\ store.alerts.ids # <<>>

\* C6: auth.token is null when the store is created, and no action but
\* issueJWSToken's fulfilled action changes it, so the token is null unless
\* that action has been reduced.
C6_TokenSetOnlyByIssueJWSTokenFulfilled ==
  /\ lastStep.op = "createStore" => store.auth.token = null
  /\ (\A token \in Tokens : Dispatched # <<issueJWSTokenFulfilled(token)>>)
       => store.auth.token = Before.auth.token

\* C6's case: a createUser action was reduced on a state that holds a token.
C6_Witness ==
  /\ Dispatched = <<createUserFulfilled>>
  /\ Before.auth.token = "jws1"
  /\ store.auth.token = "jws1"

\* C7: reducing alertRemove(id) on a state that has no alert with that id
\* (id neither in alerts.ids nor a key of alerts.entities) changes nothing:
\* the ids list and the entities map stay as they were.
C7_RemoveAbsentIdIsNoOp ==
  /\ \A id \in AlertIds :
       (id \notin Elems(store.alerts.ids) /\ id \notin DOMAIN store.alerts.entities)
         => rootReducer(store, alertRemove(id)) = store
  /\ \A id \in AlertIds :
       (/\ Dispatched = <<alertRemove(id)>>
        /\ id \notin Elems(Before.alerts.ids)
        /\ id \notin DOMAIN Before.alerts.entities)
         => store = Before

\* C7's case: alertRemove(id) was reduced on a state with alerts, none of
\* which has that id.
C7_Witness ==
  \E id \in AlertIds :
    /\ Dispatched = <<alertRemove(id)>>
    /\ id \notin Elems(Before.alerts.ids)
    /\ Before.alerts.ids # <<>>
    /\ store.alerts.ids = Before.alerts.ids

\* C8: reducing alertCreate(id, message) puts id at the front of alerts.ids,
\* followed by the ids that were there, in their order, and sets
\* alerts.entities[id] to {id, message}, every other entity staying as it
\* was: the newest alert comes first.
C8_CreatePrependsAlert ==
  \A id \in AlertIds, message \in Messages :
    Dispatched = <<alertCreate(id, message)>> =>
      /\ store.alerts.ids = <<id>> \o Before.alerts.ids
      /\ DOMAIN store.alerts.entities = DOMAIN Before.alerts.entities \cup {id}
      /\ store.alerts.entities[id] = [id |-> id, message |-> message]
      /\ \A other \in DOMAIN Before.alerts.entities \ {id} :
           store.alerts.entities[other] = Before.alerts.entities[other]

\* C8's case: alertCreate was reduced on a state that held another alert.
C8_Witness ==
  \E id \in AlertIds, message \in Messages :
    /\ Dispatched = <<alertCreate(id, message)>>
    /\ Before.alerts.ids # <<>>
    /\ id \notin Elems(Before.alerts.ids)
    /\ Len(store.alerts.ids) = Len(Before.alerts.ids) + 1

\* Whether the form's two passwords differed when onSubmit ran last.
SubmittedMismatch ==
  /\ lastStep.op = "onSubmit"
  /\ lastStep.input.password # lastStep.input.repeatPassword

\* C9: when the sign-up form is submitted with a password that differs from
\* the repeated password, exactly one alert is created, with the message
\* "THE PROVIDED PASSWORDS DON'T MATCH!"; no POST /api/users is issued, no
\* createUser action is dispatched and the auth slice stays as it was.
C9_MismatchOnlyAlerts ==
  SubmittedMismatch =>
    /\ \E id \in AlertIds :
         /\ lastStep.effects = <<alertCreate(id, PasswordsDontMatch)>>
         /\ store.alerts.ids = <<id>> \o Before.alerts.ids
         /\ store.alerts.entities[id].message = PasswordsDontMatch
    /\ PostRequest \notin Elems(lastStep.effects)
    /\ \A i \in 1..Len(Dispatched) : Dispatched[i] \notin CreateUserAction
    /\ store.auth = Before.auth
    /\ pc[lastStep.p] = "idle"

\* C9's case: the form was submitted with two different passwords while an
\* earlier submission was waiting for its response.
C9_Witness ==
  /\ SubmittedMismatch
  /\ \E p \in Procs : pc[p] = "awaitPost"
  /\ Len(store.alerts.ids) = Len(Before.alerts.ids) + 1

\* Whether the last step created the alert "REGISTRATION SUCCESSFUL".
RegistrationAlertCreated ==
  \E id \in AlertIds : Dispatched = <<alertCreate(id, RegistrationSuccessful)>>

\* C10: when the form is submitted with matching passwords and the request
\* succeeds, the alert "REGISTRATION SUCCESSFUL" is created, and only after
\* createUserPending and then createUserFulfilled have been reduced: when the
\* alert appears, auth.requestStatus is succeeded.
C10_SuccessAlertAfterFulfilled ==
  /\ (lastStep.op = "onSubmit.resume" /\ lastStep.input.state = "fulfilled")
       => RegistrationAlertCreated
  /\ RegistrationAlertCreated =>
       /\ lastStep.op = "onSubmit.resume"
       /\ lastStep.trace =
            <<createUserPending, PostRequest, createUserFulfilled,
              PromiseSettled(PromiseFulfilled)>> \o Dispatched
       /\ Before.auth.requestStatus = SUCCEEDED
       /\ store.auth.requestStatus = SUCCEEDED
       /\ store.auth.requestError = null

\* C10's case: the alert was created for a submission that succeeded while
\* another submission was still waiting for its response.
C10_Witness ==
  /\ RegistrationAlertCreated
  /\ \E p \in Procs : pc[p] = "awaitPost"
  /\ store.alerts.entities[Head(store.alerts.ids)].message = RegistrationSuccessful

\* The error the thunk is to report for a failed request: the backend's error
\* string when the response body has one (a non-empty one), and the
\* placeholder otherwise.
ReportedError(outcome) ==
  IF outcome.hasResponse /\ outcome.data = "object"
       /\ outcome.error \notin {undefined, ""}
  THEN outcome.error
  ELSE ErrorNotFromBackend

\* C11: whenever the create-user request fails, whatever the failure looks
\* like (a body with an error string, a body without an error field, a
\* malformed or missing body, no response), the createUser thunk dispatches
\* createUserRejected with the backend's error string when there is one and
\* with the placeholder otherwise, so that auth.requestStatus ends as failed
\* and does not stay loading.
C11_EveryFailureIsRejected ==
  (lastStep.op = "createUser" /\ ~lastStep.input.ok) =>
    /\ Dispatched = <<createUserRejected(ReportedError(lastStep.input))>>
    /\ store.auth.requestStatus = FAILED
    /\ store.auth.requestError = ReportedError(lastStep.input)

\* The paths under which the journal is to be found: the route of <App> and
\* the URL of the application's tests.
JournalPaths == {"/my-monthly-journal", "/journal-entries"}

\* C12: visiting the journal's route while not signed in (the store holds no
\* token) redirects to the sign-in view: the location becomes /sign-in and
\* the journal view is not rendered.
C12_JournalRouteIsGuarded ==
  (lastStep.op = "visit" /\ lastStep.input \in JournalPaths
     /\ store.auth.token = null)
    => /\ location = "/sign-in"
       /\ View = "SignIn"

\* C13: after any sequence of actions from the initial state the alerts slice
\* is consistent: the ids in alerts.ids are exactly the keys of
\* alerts.entities, and the entity under key k has id k, so that <Alerts>
\* finds an entity for every id it lists.
C13_AlertsSliceConsistent ==
  /\ Elems(store.alerts.ids) = DOMAIN store.alerts.entities
  /\ \A k \in DOMAIN store.alerts.entities : store.alerts.entities[k].id = k
  /\ \A i \in 1..Len(store.alerts.ids) :
       store.alerts.ids[i] \in DOMAIN store.alerts.entities

\* C13's case: an alert was removed from a state that held two, and the other
\* one is still listed.
C13_Witness ==
  \E id \in AlertIds :
    /\ Dispatched = <<alertRemove(id)>>
    /\ id \in Elems(Before.alerts.ids)
    /\ Len(Before.alerts.ids) >= 2
    /\ store.alerts.ids # <<>>

\* Whether the last step ended an invocation of SignUp.onSubmit.
SubmissionCompleted ==
  \/ lastStep.op = "onSubmit" /\ pc[lastStep.p] = "idle"
  \/ lastStep.op = "onSubmit.resume"

\* How many alerts some effects created.
AlertsCreated(effects) ==
  Cardinality({i \in 1..Len(effects) : effects[i].type = AlertCREATE})

\* C14: every completed submission of the sign-up form has created exactly
\* one alert, whichever branch it took; when the request failed, the alert's
\* message is the error that createUserRejected carried, which is the value of
\* auth.requestError when the alert is created.
C14_OneAlertPerSubmission ==
  SubmissionCompleted =>
    /\ AlertsCreated(lastStep.trace) = 1
    /\ (lastStep.op = "onSubmit.resume" /\ lastStep.input.state = "rejected") =>
         \E id \in AlertIds, e \in ErrorStrings :
           /\ createUserRejected(e) \in Elems(lastStep.trace)
           /\ Dispatched = <<alertCreate(id, e)>>
           /\ Before.auth.requestError = e

\* C15: when two createUser thunks are in flight at the same time, then once
\* the response of the last one has been handled auth.requestStatus and
\* auth.requestError show the outcome of that last response (succeeded and
\* null, or failed and its error); and in every state, requestStatus =
\* succeeded implies requestError = null.
C15_LastResponseWins ==
  /\ (/\ lastStep.op = "createUser"
      /\ concurrent[lastStep.p]
      /\ \A q \in Procs : pc[q] # "awaitPost")
       => IF lastStep.input.ok
          THEN /\ store.auth.requestStatus = SUCCEEDED
               /\ store.auth.requestError = null
          ELSE /\ store.auth.requestStatus = FAILED
               /\ store.auth.requestError = ReportedError(lastStep.input)
  /\ store.auth.requestStatus = SUCCEEDED => store.auth.requestError = null

====
